---- MODULE Spec2Model ----
(***************************************************************************)
(* lessroutes: the binary-trie route compressor of src/tree.rs.            *)
(*                                                                         *)
(* A Tree is built for K gateways (Tree::new), coloured prefixes are       *)
(* inserted with Tree::mark, and Tree::generate_v4 / generate_v6 run the   *)
(* bottom-up Node::dp, optionally clear the root's decision array, run the *)
(* top-down Node::generate walk and convert every (bit-path, color)        *)
(* record to a route.  A Rust panic (assert_ne!/assert_eq! in dp, or the   *)
(* index gateways[color - 1]) aborts the process: phase = "dp_panic" or    *)
(* "emit_panic", after which nothing more happens.                         *)
(*                                                                         *)
(* Addresses are Width bits wide (32 for IPv4, 128 for IPv6 in the code;   *)
(* the two generate functions differ in nothing else).  Bits are 0 / 1     *)
(* for the code's false / true.  Option<usize> is a sequence: <<>> is      *)
(* None, <<d>> is Some(d).  A Vec of K + 1 entries is a sequence of K + 1  *)
(* entries: At(v, i) is the code's v[i], for i in 0..K.                    *)
(***************************************************************************)
EXTENDS Integers, Sequences, FiniteSets, TLC

\* ---- bounds -------------------------------------------------------------
Width == 2          \* address width in bits
MaxColors == 2      \* largest number of gateways K a Tree is created for
MaxMarks == 4       \* mark calls in one run
MaxGenerates == 2   \* generate calls in one run

\* std::usize::MAX, the initial num_routes entry (scaled to TLC's integers;
\* dp overwrites every entry before any arithmetic reads it).
UsizeMax == 2147483647

VARIABLES
    colors,     \* Tree.colors: K, the number of gateways
    tree,       \* the nodes under Tree.root: bit-path |-> Node
    phase,      \* "building", or how the latest generate call ended
    records,    \* the Vec<(Vec<bool>, usize)> the latest walk filled
    routes,     \* the Vec of routes the latest generate returned
    nd,         \* no_default_gateway of the latest generate call
    nmarks,     \* mark calls so far
    ngens,      \* generate calls so far
    badmark     \* history: some mark call had a color outside 1..K

vars == <<colors, tree, phase, records, routes, nd, nmarks, ngens, badmark>>

\* ---- helpers ------------------------------------------------------------
None == <<>>

Some(d) == <<d>>

Bit == {0, 1}

\* Every bit-path of at most Width bits.
Paths == UNION {[1..n -> Bit] : n \in 0..Width}

\* Every address: a bit-path of exactly Width bits.
Addresses == [1..Width -> Bit]

Take(s, n) == SubSeq(s, 1, n)

IsPrefix(p, q) == Len(p) <= Len(q) /\ Take(q, Len(p)) = p

\* The paths mark walks through: every prefix of bits, bits included.
PathTo(bits) == {Take(bits, n) : n \in 0..Len(bits)}

Child(p, b) == Append(p, b)

HasChild(t, p, b) == Child(p, b) \in DOMAIN t

Childless(t, p) == ~HasChild(t, p, 0) /\ ~HasChild(t, p, 1)

\* v[i] of a Vec, indexed from 0.
At(v, i) == v[i + 1]

\* The Vec <<f(i), ..., f(k)>>.
RECURSIVE VecFrom(_, _, _)
VecFrom(i, f(_), k) == IF i > k THEN <<>> ELSE <<f(i)>> \o VecFrom(i + 1, f, k)

\* vec![x; k + 1]
Filled(k, x) == LET f(i) == x IN VecFrom(0, f, k)

\* ---- Node::new ----------------------------------------------------------
NewNode(k) ==
    [color |-> 0,
     num_routes |-> Filled(k, UsizeMax),
     decision |-> Filled(k, None)]

\* ---- Tree::mark ---------------------------------------------------------
\* Descend the first prefix_len bits, creating the missing nodes, and set the
\* terminal node's color.  Nothing is checked.
MarkTree(t, k, bits, color) ==
    LET old(p) == IF p \in DOMAIN t THEN t[p] ELSE NewNode(k)
    IN  [p \in DOMAIN t \cup PathTo(bits) |->
            IF p = bits THEN [old(p) EXCEPT !.color = color] ELSE old(p)]

\* ---- Node::dp -----------------------------------------------------------
\* The assertions of dp: a childless node must be coloured, a node with a
\* child must not be.  dp visits every node, so any offender panics.
DpPanics(t) ==
    \E p \in DOMAIN t :
        \/ Childless(t, p) /\ t[p].color = 0
        \/ ~Childless(t, p) /\ t[p].color # 0

\* Leaf case, lines 27-35.
DpLeaf(node, k) ==
    LET n(i) == IF i = node.color THEN 0 ELSE 1
        d(i) == IF i = node.color THEN None ELSE Some(i)
    IN  [node EXCEPT !.num_routes = VecFrom(0, n, k), !.decision = VecFrom(0, d, k)]

\* The loop with its comparison turned round: the last index of the largest
\* entry.
RECURSIVE MinIndexFrom_Greater(_, _, _, _)
MinIndexFrom_Greater(v, k, i, min_index) ==
    IF i > k THEN min_index
    ELSE MinIndexFrom_Greater(v, k, i + 1,
                              IF At(v, i) > At(v, min_index) THEN i ELSE min_index)

\* Loop of lines 53-58: the lowest index of the smallest entry.
RECURSIVE MinIndexFrom(_, _, _, _)
MinIndexFrom(v, k, i, min_index) ==
    IF i > k THEN min_index
    ELSE MinIndexFrom(v, k, i + 1, IF At(v, i) < At(v, min_index) THEN i ELSE min_index)

MinIndex(v, k) == MinIndexFrom(v, k, 1, 0)

\* dp without lines 59-64: no node ever switches colour.
Relax_NoSwitch(base, k) == [num_routes |-> base, decision |-> Filled(k, None)]

\* Lines 59-64: an entry more than one above the minimum switches colour here.
Relax(base, k) ==
    LET min_index == MinIndex(base, k)
        least == At(base, min_index)
        n(i) == IF At(base, i) > least + 1 THEN least + 1 ELSE At(base, i)
        d(i) == IF At(base, i) > least + 1 THEN Some(min_index) ELSE None
    IN  [num_routes |-> VecFrom(0, n, k), decision |-> VecFrom(0, d, k)]

\* Internal case, lines 43-64, from the num_routes of the two children (all
\* zero for an absent child).
DpInternal(node, k, sub0, sub1) ==
    LET sum(i) == At(sub0, i) + At(sub1, i)
        r == Relax(VecFrom(0, sum, k), k)
    IN  [node EXCEPT !.num_routes = r.num_routes, !.decision = r.decision]

\* dp on the node at p: the nodes of its subtree, each with its DP state.
RECURSIVE NodeDp(_, _, _)
NodeDp(t, k, p) ==
    IF Childless(t, p) THEN p :> DpLeaf(t[p], k)
    ELSE IF ~HasChild(t, p, 1)
    THEN LET s0 == NodeDp(t, k, Child(p, 0))
         IN  (p :> DpInternal(t[p], k, s0[Child(p, 0)].num_routes, Filled(k, 0))) @@ s0
    ELSE IF ~HasChild(t, p, 0)
    THEN LET s1 == NodeDp(t, k, Child(p, 1))
         IN  (p :> DpInternal(t[p], k, Filled(k, 0), s1[Child(p, 1)].num_routes)) @@ s1
    ELSE LET s0 == NodeDp(t, k, Child(p, 0))
             s1 == NodeDp(t, k, Child(p, 1))
         IN  (p :> DpInternal(t[p], k, s0[Child(p, 0)].num_routes,
                              s1[Child(p, 1)].num_routes)) @@ s0 @@ s1

\* root.dp(): every node of the tree carries its DP state.
Dp(t, k) == NodeDp(t, k, <<>>)

\* generate without lines 124-126: no_default_gateway is ignored.
ClearRootDecision_Skipped(t, k, no_default_gateway) == t

\* ---- Tree::generate_v4, lines 124-126 -----------------------------------
ClearRootDecision(t, k, no_default_gateway) ==
    IF no_default_gateway
    THEN [t EXCEPT ![<<>>].decision = Filled(k, None)]
    ELSE t

\* ---- Node::generate -----------------------------------------------------
RECURSIVE NodeGenerate(_, _, _)
NodeGenerate(t, p, color) ==
    LET d == At(t[p].decision, color)
        here == IF d # None THEN <<[bits |-> p, color |-> d[1]]>> ELSE <<>>
        c == IF d # None THEN d[1] ELSE color
        down(b) == IF HasChild(t, p, b) THEN NodeGenerate(t, Child(p, b), c) ELSE <<>>
    IN  here \o down(0) \o down(1)

\* ---- route conversion, lines 131-154 -------------------------------------
\* bits.resize(32, false): pad with zero bits to the address width.
Resize(bits) ==
    LET bit(i) == IF i <= Len(bits) THEN bits[i] ELSE 0 IN VecFrom(1, bit, Width)

\* gateways[color - 1] with gateways.len() = K panics unless 1 <= color <= K.
EmitPanics(recs, k) == \E i \in 1..Len(recs) : recs[i].color \notin 1..k

ToRoute(rec) ==
    [prefix |-> Resize(rec.bits), length |-> Len(rec.bits), gateway |-> rec.color]

ToRoutes(recs) ==
    LET route(i) == ToRoute(recs[i]) IN VecFrom(1, route, Len(recs))

\* ---- the state machine ---------------------------------------------------
Init ==
    /\ colors \in 1..MaxColors
    /\ tree = [p \in {<<>>} |-> NewNode(colors)]
    /\ phase = "building"
    /\ records = <<>>
    /\ routes = <<>>
    /\ nd = FALSE
    /\ nmarks = 0
    /\ ngens = 0
    /\ badmark = FALSE

Aborted == phase \in {"dp_panic", "emit_panic"}

\* Tree::mark_v4 / mark_v6.  The Vec a previous generate returned is the
\* caller's; the model keeps records and routes only for the latest call.
Mark(bits, color) ==
    /\ ~Aborted
    /\ nmarks < MaxMarks
    /\ tree' = MarkTree(tree, colors, bits, color)
    /\ phase' = "building"
    /\ records' = <<>>
    /\ routes' = <<>>
    /\ nmarks' = nmarks + 1
    /\ badmark' = (badmark \/ color \notin 1..colors)
    /\ UNCHANGED <<colors, nd, ngens>>

\* generate: an assertion of dp fails.  The process aborts in the middle of
\* dp; what dp had written by then is never read again.
GenerateDpPanic(no_default_gateway) ==
    /\ ~Aborted
    /\ ngens < MaxGenerates
    /\ DpPanics(tree)
    /\ phase' = "dp_panic"
    /\ records' = <<>>
    /\ routes' = <<>>
    /\ nd' = no_default_gateway
    /\ ngens' = ngens + 1
    /\ UNCHANGED <<colors, tree, nmarks, badmark>>

\* generate: dp and the walk complete; the conversion returns the routes or
\* panics on a record whose color indexes no gateway.
GenerateWalk(no_default_gateway) ==
    /\ ~Aborted
    /\ ngens < MaxGenerates
    /\ ~DpPanics(tree)
    /\ tree' = ClearRootDecision(Dp(tree, colors), colors, no_default_gateway)
    /\ records' = NodeGenerate(tree', <<>>, 0)
    /\ IF EmitPanics(records', colors)
       THEN phase' = "emit_panic" /\ routes' = <<>>
       ELSE phase' = "returned" /\ routes' = ToRoutes(records')
    /\ nd' = no_default_gateway
    /\ ngens' = ngens + 1
    /\ UNCHANGED <<colors, nmarks, badmark>>

Next ==
    \/ \E bits \in Paths, color \in 0..(colors + 1) : Mark(bits, color)
    \/ \E f \in BOOLEAN : GenerateDpPanic(f)
    \/ \E f \in BOOLEAN : GenerateWalk(f)

Spec == Init /\ [][Next]_vars

TypeOK ==
    /\ colors \in 1..MaxColors
    /\ phase \in {"building", "returned", "dp_panic", "emit_panic"}
    /\ nd \in BOOLEAN
    /\ <<>> \in DOMAIN tree
    /\ \A p \in DOMAIN tree : PathTo(p) \subseteq DOMAIN tree

\* ---- the program as main.rs drives the Tree ------------------------------
\* main marks every delegated prefix of a mapped country with its gateway's
\* index + 1 (so 1..K), and then calls generate once.  Delegated prefixes are
\* pairwise disjoint: none is marked at, above or below a marked one.
Disjoint(t, bits) ==
    /\ bits \notin DOMAIN t
    /\ \A p \in PathTo(bits) : p \in DOMAIN t => t[p].color = 0

MainMark(bits, color) ==
    /\ ngens = 0
    /\ Disjoint(tree, bits)
    /\ Mark(bits, color)

MainGenerateDpPanic(no_default_gateway) ==
    /\ ngens = 0
    /\ GenerateDpPanic(no_default_gateway)

MainGenerateWalk(no_default_gateway) ==
    /\ ngens = 0
    /\ GenerateWalk(no_default_gateway)

NextMain ==
    \/ \E bits \in Paths, color \in 1..colors : MainMark(bits, color)
    \/ \E f \in BOOLEAN : MainGenerateDpPanic(f)
    \/ \E f \in BOOLEAN : MainGenerateWalk(f)

SpecMain == Init /\ [][NextMain]_vars

\* ---- vocabulary of the properties ----------------------------------------
\* The walk of the latest generate call ran to its end on the present tree.
Walked == phase \in {"returned", "emit_panic"}

\* The marked prefixes: the coloured nodes.
Marked(t) == {p \in DOMAIN t : t[p].color # 0}

\* The tree a sequence of marks with disjoint prefixes and colors in 1..K
\* builds: exactly the childless nodes are coloured, with a color in 1..K.
WellMarked(t, k) ==
    \A p \in DOMAIN t :
        IF Childless(t, p) THEN t[p].color \in 1..k ELSE t[p].color = 0

Covers(r, a) == Take(r.prefix, r.length) = Take(a, r.length)

\* Longest-prefix match: the gateways of the longest routes covering address
\* a; {} when no route covers it ("no route").
Classify(rs, a) ==
    LET m == {i \in 1..Len(rs) : Covers(rs[i], a)}
        longest == {i \in m : \A j \in m : rs[j].length <= rs[i].length}
    IN  {rs[i].gateway : i \in longest}

\* The color the marks require of address a: that of the longest marked
\* prefix a lies in; 0 when it lies in none.
Required(t, a) ==
    LET m == {q \in PathTo(a) : q \in DOMAIN t /\ t[q].color # 0}
    IN  IF m = {} THEN 0 ELSE t[CHOOSE q \in m : \A r \in m : Len(r) <= Len(q)].color

Min2(x, y) == IF x <= y THEN x ELSE y

\* The least f(d) over d in i..k.
RECURSIVE MinFrom(_, _, _)
MinFrom(i, f(_), k) == IF i = k THEN f(i) ELSE Min2(f(i), MinFrom(i + 1, f, k))

RECURSIVE Pow2(_)
Pow2(n) == IF n = 0 THEN 1 ELSE 2 * Pow2(n - 1)

\* A bit-path as a number, first bit most significant, and back.
RECURSIVE Num(_)
Num(p) == IF p = <<>> THEN 0 ELSE 2 * Num(Take(p, Len(p) - 1)) + p[Len(p)]

Bits(len, n) ==
    LET bit(i) == (n \div Pow2(len - i)) % 2 IN VecFrom(1, bit, len)

\* The least number of routes, placed at a prefix or at any longer prefix,
\* with which longest-prefix match gives every address under the prefix that
\* lies in a marked prefix its marked color, when the color in force above
\* the prefix is c (0: no route).  Exhaustive over the whole address tree:
\* every prefix carries either no route or a route to any one gateway of 1..K.
\* A table per prefix length, computed from the full addresses upwards; the
\* entry of prefix p under color c is At(At(table, Num(p)), c).
AddressCosts(t, k) ==
    LET row(n) == LET required == Required(t, Bits(Width, n))
                      cell(c) == IF required \in {0, c} THEN 0 ELSE 1
                  IN  VecFrom(0, cell, k)
    IN  VecFrom(0, row, Pow2(Width) - 1)

PrefixCosts(k, len, longer) ==
    LET row(n) == LET inherit(c) == At(At(longer, 2 * n), c) + At(At(longer, 2 * n + 1), c)
                      switch == 1 + MinFrom(1, inherit, k)
                      cell(c) == Min2(inherit(c), switch)
                  IN  VecFrom(0, cell, k)
    IN  VecFrom(0, row, Pow2(len) - 1)

\* The tables of every prefix length 0..Width, shortest first.
RECURSIVE CostTables(_, _, _)
CostTables(t, k, len) ==
    IF len = Width THEN <<AddressCosts(t, k)>>
    ELSE LET longer == CostTables(t, k, len + 1)
         IN  <<PrefixCosts(k, len, longer[1])>> \o longer

MinRoutes(tables, p, c) == At(At(tables[Len(p) + 1], Num(p)), c)

\* The tables against the definition they compute, by enumeration of every
\* route list R (a gateway of 1..K, or 0 for no route, at every prefix): some
\* list that classifies every marked prefix correctly has MinRoutes routes,
\* and none has fewer.
Lpm(R, a) ==
    LET m == {q \in PathTo(a) : R[q] # 0}
    IN  IF m = {} THEN 0 ELSE R[CHOOSE q \in m : \A r \in m : Len(r) <= Len(q)]

Correct(R, t) ==
    \A p \in Marked(t) : \A a \in Addresses : IsPrefix(p, a) => Lpm(R, a) = t[p].color

Size(R) == Cardinality({q \in Paths : R[q] # 0})

MinRoutesIsExhaustiveMinimum ==
    (phase = "building" /\ WellMarked(tree, colors)) =>
        LET n == MinRoutes(CostTables(tree, colors, 0), <<>>, 0)
        IN  /\ \E R \in [Paths -> 0..colors] : Correct(R, tree) /\ Size(R) = n
            /\ \A R \in [Paths -> 0..colors] : Correct(R, tree) => Size(R) >= n

\* ---- C1 ------------------------------------------------------------------
\* C1: for disjoint marks with colors in 1..K, the returned route list gives,
\* by longest-prefix match, every address of every marked prefix the color
\* the prefix was marked with (with no_default_gateway, that color or no
\* route at all).
CoverageEquivalence ==
    (phase = "returned" /\ WellMarked(tree, colors)) =>
        \A p \in Marked(tree) : \A a \in Addresses :
            IsPrefix(p, a) =>
                \/ Classify(routes, a) = {tree[p].color}
                \/ nd /\ Classify(routes, a) = {}

\* ---- C2 ------------------------------------------------------------------
\* C2: for disjoint marks with colors in 1..K, after dp every node's
\* num_routes[c] is the least number of routes its subtree needs under the
\* inherited color c, and without no_default_gateway the walk emits exactly
\* root.num_routes[0] records (the returned list has as many routes), which is
\* the least size of any route list that classifies every marked prefix
\* correctly.
Minimality ==
    (Walked /\ WellMarked(tree, colors)) =>
        LET tables == CostTables(tree, colors, 0)
        IN  /\ \A p \in DOMAIN tree : \A c \in 0..colors :
                   At(tree[p].num_routes, c) = MinRoutes(tables, p, c)
            /\ ~nd => /\ Len(records) = At(tree[<<>>].num_routes, 0)
                      /\ Len(records) = MinRoutes(tables, <<>>, 0)
                      /\ phase = "returned" => Len(routes) = Len(records)

MinimalityWitness ==
    /\ phase = "returned" /\ ~nd /\ WellMarked(tree, colors)
    /\ Len(routes) >= 2
    /\ \E p, q \in Marked(tree) : tree[p].color # tree[q].color
    /\ At(tree[<<>>].decision, 0) # None

\* ---- C3 ------------------------------------------------------------------
\* C3: no (bit-path, color) record the walk emits has color 0: every emitted
\* color is in 1..K, so that gateways[color - 1] is a gateway.
ReservedColor ==
    (Walked /\ WellMarked(tree, colors)) =>
        \A i \in 1..Len(records) : records[i].color \in 1..colors

\* ---- C4 ------------------------------------------------------------------
\* C4: with no_default_gateway, no emitted record has the empty bit-path and
\* no returned route has length 0.
NoDefaultInvariant ==
    (Walked /\ nd) =>
        /\ \A i \in 1..Len(records) : records[i].bits # <<>>
        /\ \A i \in 1..Len(routes) : routes[i].length # 0

\* dp chose a default route at the root, which the clearing then dropped.
NoDefaultWitness ==
    /\ phase = "returned" /\ nd
    /\ routes # <<>>
    /\ At(Dp(tree, colors)[<<>>].decision, 0) # None
    /\ At(tree[<<>>].decision, 0) = None

\* ---- C5 ------------------------------------------------------------------
\* C5: generate without no_default_gateway on a tree that received no mark
\* returns the empty route list.
EmptyInputReturnsEmpty ==
    (ngens > 0 /\ nmarks = 0 /\ ~nd) => (phase = "returned" /\ routes = <<>>)

\* ---- C6 ------------------------------------------------------------------
\* Exactly two prefixes are marked, with colors in 1..K, one inside the other.
Nested(t, k, p, q) ==
    /\ Marked(t) = {p, q}
    /\ p # q /\ IsPrefix(p, q)
    /\ t[p].color \in 1..k /\ t[q].color \in 1..k

\* C6: with a prefix P marked a and a longer prefix Q inside P marked b,
\* generate returns exactly the routes {P, a} and {Q, b}: addresses in Q are
\* classified b, addresses in P outside Q are classified a.
NestedLongerWins ==
    \A p, q \in DOMAIN tree :
        (phase # "building" /\ ~nd /\ Nested(tree, colors, p, q)) =>
            /\ phase = "returned"
            /\ {routes[i] : i \in 1..Len(routes)} =
                   {ToRoute([bits |-> p, color |-> tree[p].color]),
                    ToRoute([bits |-> q, color |-> tree[q].color])}
            /\ \A a \in Addresses :
                   /\ IsPrefix(q, a) => Classify(routes, a) = {tree[q].color}
                   /\ (IsPrefix(p, a) /\ ~IsPrefix(q, a)) => Classify(routes, a) = {tree[p].color}

\* ---- C7 ------------------------------------------------------------------
\* Four disjoint prefixes of one length are marked, three with a color a and
\* one with another color b.
FourEqualLength(t, k) ==
    /\ WellMarked(t, k)
    /\ Cardinality(Marked(t)) = 4
    /\ \A p, q \in Marked(t) : Len(p) = Len(q)
    /\ \E q \in Marked(t) :
           \A p, r \in Marked(t) \ {q} :
               t[p].color = t[r].color /\ t[p].color # t[q].color

\* C7 as stated: on such an input generate with no_default_gateway emits
\* exactly 4 records, one at each marked prefix, and none of length 0.
NoDefaultEmitsEachPrefix ==
    (Walked /\ nd /\ FourEqualLength(tree, colors)) =>
        /\ Len(records) = 4
        /\ {records[i].bits : i \in 1..Len(records)} = Marked(tree)
        /\ \A i \in 1..Len(records) : records[i].bits # <<>>

\* C7 as amended: on such an input generate with no_default_gateway emits at
\* most 3 records, none of length 0, and at least one of them at a length
\* shorter than the marked prefixes': dp aggregates prefixes of color a below
\* the root, and only the root's own decision is cleared.  A returned list
\* has one route per record.
NoDefaultStillAggregates ==
    (Walked /\ nd /\ FourEqualLength(tree, colors)) =>
        /\ Len(records) <= 3
        /\ \A i \in 1..Len(records) : records[i].bits # <<>>
        /\ \E i \in 1..Len(records) : \A p \in Marked(tree) : Len(records[i].bits) < Len(p)
        /\ phase = "returned" => Len(routes) = Len(records)

NoDefaultAggregatesWitness ==
    /\ Walked /\ nd /\ FourEqualLength(tree, colors)
    /\ Len(records) = 3

\* ---- C8 ------------------------------------------------------------------
\* C8: a run in which some mark had color 0 or a color above K never returns a
\* route list from generate.
InvalidColorIsFatal == badmark => phase # "returned"

\* ---- C9 ------------------------------------------------------------------
Colouring(t) == [p \in DOMAIN t |-> t[p].color]

\* C9: once generate has been called, no mark takes effect on the tree.
NoMarkAfterGenerate == [][ngens > 0 => Colouring(tree') = Colouring(tree)]_vars

\* ---- C10 -----------------------------------------------------------------
\* C10: after dp a childless node of color L has num_routes[L] = 0 and
\* decision[L] = None, and for every other inherited color c num_routes[c] = 1
\* and decision[c] = Some(L).  (The root's decisions are cleared afterwards
\* under no_default_gateway, so the root is then left out.)
DpLeafCase ==
    Walked =>
        \A p \in DOMAIN tree :
            (Childless(tree, p) /\ tree[p].color \in 1..colors /\ ~(nd /\ p = <<>>)) =>
                \A c \in 0..colors :
                    IF c = tree[p].color
                    THEN At(tree[p].num_routes, c) = 0 /\ At(tree[p].decision, c) = None
                    ELSE At(tree[p].num_routes, c) = 1 /\ At(tree[p].decision, c) = Some(tree[p].color)
====
